---------------------------- MODULE Spec2Model ----------------------------
(***************************************************************************)
(* A model of bs_utils: get_rng, make_bs_lst, bs_prior and bs_corrs.       *)
(*                                                                         *)
(* The library is a set of pure functions of their arguments and of the    *)
(* entropy the operating system hands to numpy.random.default_rng().  A    *)
(* behaviour is a process that makes calls; the state holds the call, what *)
(* it returned, what it printed and whether the process has exited.        *)
(*                                                                         *)
(* numpy and hashlib are libraries the code calls, not code of the         *)
(* repository.  They are modelled by what they do at a reduced width:      *)
(*   - float64 is a binary floating point format with Precision bits of    *)
(*     significand and round-to-nearest-even (float64 has 53);             *)
(*   - PCG64 is a full-period congruential generator on 2^20 states;       *)
(*   - MD5 is the table of its digests for the seed strings considered.    *)
(***************************************************************************)
EXTENDS Integers, Sequences, FiniteSets

VARIABLES
    pc,          \* "ready": the call is about to run; "returned"; "exited"
    call,        \* the call: the function's name and its arguments
    os_entropy,  \* the entropy the OS hands to the next default_rng()
    result,      \* what the call returned (PyNone before, and when it did not return)
    stdout,      \* what the call printed
    stderr,      \* what the process wrote to stderr on exit
    exit_status, \* None while the process runs, else <<status>>
    trace,       \* the generator constructors the call ran, in order
    memo         \* an earlier call of the process with its result, or None

vars == << pc, call, os_entropy, result, stdout, stderr, exit_status, trace, memo >>

(***************************************************************************)
(* Python's None and truthiness.  An optional argument is <<>> (None) or   *)
(* <<v>> (the value v).                                                    *)
(***************************************************************************)
None == << >>
Some(v) == << v >>

\* `if m_bs:` on an int or None: None and 0 are falsy.
TruthyInt(x) == x # None /\ x[1] # 0

\* `if seed` on a str or None: None and "" are falsy.
TruthyStr(x) == x # None /\ x[1] # ""

Abs(n) == IF n < 0 THEN -n ELSE n
Sign(n) == IF n < 0 THEN -1 ELSE 1
Min(a, b) == IF a <= b THEN a ELSE b
Max(a, b) == IF a >= b THEN a ELSE b

(***************************************************************************)
(* Floating point.  A float is [m, e] standing for m * 2^e, with m = 0 and *)
(* e = 0, or 2^(Precision-1) <= |m| < 2^Precision.  Every operation is the *)
(* exact result rounded to nearest, ties to even (IEEE 754).  There is no  *)
(* exponent range: overflow and subnormals are out of the model.           *)
(***************************************************************************)
Precision == 8

RECURSIVE BitLen(_)
BitLen(n) == IF n = 0 THEN 0 ELSE 1 + BitLen(n \div 2)

\* n * 2^e rounded to Precision bits.
FRound(n, e) ==
    IF n = 0 THEN [m |-> 0, e |-> 0]
    ELSE LET a == Abs(n)
             L == BitLen(a)
         IN  IF L <= Precision
             THEN [m |-> Sign(n) * a * 2^(Precision - L), e |-> e - (Precision - L)]
             ELSE LET k  == L - Precision
                      q  == a \div 2^k
                      r  == a % 2^k
                      h  == 2^(k - 1)
                      q1 == IF r > h \/ (r = h /\ q % 2 = 1) THEN q + 1 ELSE q
                  IN  IF q1 = 2^Precision
                      THEN [m |-> Sign(n) * 2^(Precision - 1), e |-> e + k + 1]
                      ELSE [m |-> Sign(n) * q1, e |-> e + k]

FromInt(n) == FRound(n, 0)
FZero == FromInt(0)

FAdd(x, y) ==
    IF x.m = 0 THEN y
    ELSE IF y.m = 0 THEN x
    ELSE LET em == Min(x.e, y.e)
         IN  FRound(x.m * 2^(x.e - em) + y.m * 2^(y.e - em), em)

FNeg(x) == [m |-> -x.m, e |-> x.e]
FSub(x, y) == FAdd(x, FNeg(y))
FMul(x, y) == FRound(x.m * y.m, x.e + y.e)

\* x / y for y # 0: the quotient to Precision + 2 bits and a sticky bit.
FDiv(x, y) ==
    LET s   == Precision + 2
        a   == Abs(x.m) * 2^s
        q   == a \div Abs(y.m)
        st  == IF a % Abs(y.m) = 0 THEN 0 ELSE 1
    IN  FRound(Sign(x.m) * Sign(y.m) * (2 * q + st), x.e - y.e - s - 1)

\* The integer square root of n < 4^(Precision + 2), bit by bit from the top.
RECURSIVE ISqrtFrom(_, _, _)
ISqrtFrom(n, r, bit) ==
    IF bit = 0 THEN r
    ELSE IF (r + bit) * (r + bit) <= n THEN ISqrtFrom(n, r + bit, bit \div 2)
    ELSE ISqrtFrom(n, r, bit \div 2)

ISqrt(n) == ISqrtFrom(n, 0, 2^(Precision + 1))

\* sqrt(x) for x >= 0.
FSqrt(x) ==
    IF x.m = 0 THEN FZero
    ELSE LET s  == Precision + 2 + ((x.e - Precision) % 2)
             n  == x.m * 2^s
             r  == ISqrt(n)
             st == IF r * r = n THEN 0 ELSE 1
         IN  FRound(2 * r + st, ((x.e - s) \div 2) - 1)

\* Exact comparisons of floats, as integers at a common exponent.
FLeq(x, y) ==
    LET em == Min(x.e, y.e)
    IN  x.m * 2^(x.e - em) <= y.m * 2^(y.e - em)

FAbs(x) == [m |-> Abs(x.m), e |-> x.e]

(***************************************************************************)
(* Exact arithmetic on the numbers m * 2^e (no rounding), to measure how   *)
(* far a float is from another.                                            *)
(***************************************************************************)
DSub(x, y) ==
    LET em == Min(x.e, y.e)
    IN  [m |-> x.m * 2^(x.e - em) - y.m * 2^(y.e - em), e |-> em]

DAdd(x, y) ==
    LET em == Min(x.e, y.e)
    IN  [m |-> x.m * 2^(x.e - em) + y.m * 2^(y.e - em), e |-> em]

DMul(x, y) == [m |-> x.m * y.m, e |-> x.e + y.e]

\* |x - y| <= tol
Close(x, y, tol) == FLeq(FAbs(DSub(x, y)), tol)


(***************************************************************************)
(* hashlib.md5(seed.encode("utf-8")).hexdigest(): the digests of the seed  *)
(* strings the model calls with, as hashlib computes them, one character   *)
(* per element.                                                            *)
(***************************************************************************)
SeedStrings == {"", "test", "a", "94", "1199"}

md5_hexdigest(s) ==
    CASE s = "" ->
           << "d", "4", "1", "d", "8", "c", "d", "9", "8", "f", "0", "0", "b", "2", "0", "4",
              "e", "9", "8", "0", "0", "9", "9", "8", "e", "c", "f", "8", "4", "2", "7", "e" >>
      [] s = "test" ->
           << "0", "9", "8", "f", "6", "b", "c", "d", "4", "6", "2", "1", "d", "3", "7", "3",
              "c", "a", "d", "e", "4", "e", "8", "3", "2", "6", "2", "7", "b", "4", "f", "6" >>
      [] s = "a" ->
           << "0", "c", "c", "1", "7", "5", "b", "9", "c", "0", "f", "1", "b", "6", "a", "8",
              "3", "1", "c", "3", "9", "9", "e", "2", "6", "9", "7", "7", "2", "6", "6", "1" >>
      [] s = "94" ->
           << "f", "4", "b", "9", "e", "c", "3", "0", "a", "d", "9", "f", "6", "8", "f", "8",
              "9", "b", "2", "9", "6", "3", "9", "7", "8", "6", "c", "b", "6", "2", "e", "f" >>
      [] s = "1199" ->
           << "4", "d", "2", "e", "7", "b", "d", "3", "3", "c", "4", "7", "5", "7", "8", "4",
              "3", "8", "1", "a", "6", "4", "e", "4", "3", "e", "5", "0", "9", "2", "2", "f" >>

HexDigits == << "0", "1", "2", "3", "4", "5", "6", "7", "8", "9", "a", "b", "c", "d", "e", "f" >>
HexVal(c) == (CHOOSE i \in 1..16 : HexDigits[i] = c) - 1

\* 10 ** 6
SeedModulus == 1000000

\* int(h[1..k], 16) % mod.  The integer has 128 bits; its residue is computed
\* digit by digit (Horner's rule), which gives the same number.
RECURSIVE IntBase16Mod(_, _, _)
IntBase16Mod(h, k, mod) ==
    IF k = 0 THEN 0 ELSE (IntBase16Mod(h, k - 1, mod) * 16 + HexVal(h[k])) % mod

seed_int_mod_1000(hash) == IntBase16Mod(hash, Len(hash), 1000)

\* seed_int = int(hash, 16) % (10 ** 6)
seed_int(hash) == IntBase16Mod(hash, Len(hash), SeedModulus)

(***************************************************************************)
(* Python values.  What a function returns carries its type: None, a       *)
(* tuple, a numpy Generator, or an ndarray with its dtype, its shape and   *)
(* its elements in memory (row-major) order.                               *)
(***************************************************************************)
PyNone == [type |-> "NoneType"]
PyTuple(items) == [type |-> "tuple", items |-> items]
RECURSIVE Prod(_)
Prod(shape) == IF shape = << >> THEN 1 ELSE Head(shape) * Prod(Tail(shape))

\* An array holds as many elements as its shape says.
ndarray(dtype, shape, data) ==
    [type |-> "ndarray", dtype |-> dtype, shape |-> shape,
     data |-> SubSeq(data, 1, Prod(shape))]

(***************************************************************************)
(* numpy.random.  A generator holds a state: SeedSequence mixes the        *)
(* entropy into the first state (one-to-one on the entropies below 2^20),  *)
(* every draw steps the state and outputs its top 10 bits.                 *)
(***************************************************************************)
SeedSequence(entropy) == (entropy * 773 + 4321) % 1048576

PCG64(s) == [type |-> "Generator", state |-> s]

RECURSIVE StateAfter(_, _)
StateAfter(s, k) == IF k = 0 THEN s ELSE (1005 * StateAfter(s, k - 1) + 12345) % 1048576

\* The k-th output of the generator, in 0..1023.
Output(rng, k) == StateAfter(rng.state, k) \div 1024

\* rng.integers(low=low, high=high, size=[rows, cols]): draws in [low, high).
integers(rng, low, high, rows, cols) ==
    ndarray("int64", << rows, cols >>,
            [k \in 1..(rows * cols) |-> low + (Output(rng, k) * (high - low)) \div 1024])

\* rng.normal(loc=loc, scale=scale, size=n): loc + scale * z, z a standard draw in [-4, 4).
normal(rng, loc, scale, n) ==
    ndarray("float64", << n >>,
            [k \in 1..n |-> FAdd(loc, FMul(scale, FRound(Output(rng, k) - 512, -7)))])

\* np.random.default_rng(): a generator seeded from fresh OS entropy.
default_rng == PCG64(SeedSequence(os_entropy))

(***************************************************************************)
(* get_rng.  Every function of the library is modelled by its outcome:     *)
(* ret (the value returned), out (the lines printed), trace (the generator *)
(* constructors called) and exit (None, or <<[status, stderr]>>).          *)
(***************************************************************************)
get_rng_not_reseeded(seed, verbose) ==
    [ret |-> default_rng, out |-> << >>, trace |-> << "get_rng" >>, exit |-> None]

get_rng(seed, verbose) ==
    LET hash == md5_hexdigest(seed)
        n    == seed_int(hash)
    IN  [ret   |-> PCG64(SeedSequence(n)),
         out   |-> IF verbose
                   THEN << << "Seed to md5 hash:", seed, "->", hash, "->", n >> >>
                   ELSE << >>,
         trace |-> << "get_rng" >>,
         exit  |-> None]

(***************************************************************************)
(* make_bs_lst                                                             *)
(***************************************************************************)
make_bs_lst_rng_is_not_None(seed, verbose) ==
    IF seed # None
    THEN get_rng(seed[1], verbose)
    ELSE [ret |-> default_rng, out |-> << >>, trace |-> << "default_rng" >>, exit |-> None]

\* rng = get_rng(seed,verbose=verbose) if seed else np.random.default_rng()
make_bs_lst_rng(seed, verbose) ==
    IF TruthyStr(seed)
    THEN get_rng(seed[1], verbose)
    ELSE [ret |-> default_rng, out |-> << >>, trace |-> << "default_rng" >>, exit |-> None]

make_bs_lst_Mbs_is_not_None(m_bs, n_s) == IF m_bs # None THEN m_bs[1] ELSE n_s

\* if m_bs: Mbs = m_bs  else: Mbs = n_s
make_bs_lst_Mbs(m_bs, n_s) == IF TruthyInt(m_bs) THEN m_bs[1] ELSE n_s

make_bs_lst_high_inclusive(rng, n_s, n_bs, Mbs) == integers(rng, 0, n_s + 1, n_bs, Mbs)

\* rng.integers(low=0, high=n_s, size=[n_bs, Mbs])
make_bs_lst_draw(rng, n_s, n_bs, Mbs) == integers(rng, 0, n_s, n_bs, Mbs)

make_bs_lst(n_bs, n_s, m_bs, seed, verbose) ==
    LET g   == make_bs_lst_rng(seed, verbose)
        Mbs == make_bs_lst_Mbs(m_bs, n_s)
    IN  [ret   |-> make_bs_lst_draw(g.ret, n_s, n_bs, Mbs),
         out   |-> g.out,
         trace |-> g.trace,
         exit  |-> None]

(***************************************************************************)
(* bs_prior                                                                *)
(***************************************************************************)
\* rng = get_rng(seed) if seed else np.random.default_rng()
bs_prior_rng(seed) ==
    IF TruthyStr(seed)
    THEN get_rng(seed[1], FALSE)
    ELSE [ret |-> default_rng, out |-> << >>, trace |-> << "default_rng" >>, exit |-> None]

sys_exit_status_0(message) == [status |-> 0, stderr |-> message]

\* sys.exit(message): the message goes to stderr and the exit status is 1.
sys_exit(message) == [status |-> 1, stderr |-> message]

bs_prior(n_bs, mean, sdev, seed, is_normal) ==
    LET g == bs_prior_rng(seed)
    IN  IF is_normal
        THEN [ret   |-> normal(g.ret, mean, sdev, n_bs),
              out   |-> g.out,
              trace |-> g.trace,
              exit  |-> None]
        ELSE [ret   |-> PyNone,
              out   |-> g.out,
              trace |-> g.trace,
              exit  |-> Some(sys_exit("Non-Gaussian distributions not currently supported"))]

(***************************************************************************)
(* bs_corrs.  corr is an ndarray of shape (Ncfg,) + observable shape.      *)
(***************************************************************************)
\* if Mbs: m_bs = Mbs  else: m_bs = Ncfg
bs_corrs_m_bs(Mbs, Ncfg) == IF TruthyInt(Mbs) THEN Mbs[1] ELSE Ncfg

\* rng = get_rng(seed,verbose=verbose) if seed else np.random.default_rng()
bs_corrs_rng(seed, verbose) ==
    IF TruthyStr(seed)
    THEN get_rng(seed[1], verbose)
    ELSE [ret |-> default_rng, out |-> << >>, trace |-> << "default_rng" >>, exit |-> None]

bs_corrs_bs_list_square(rng, Ncfg, Nbs, m_bs) == integers(rng, 0, Ncfg, Nbs, Ncfg)

\* bs_list = rng.integers(low=0, high=Ncfg, size=[Nbs, m_bs])
bs_corrs_bs_list(rng, Ncfg, Nbs, m_bs) == integers(rng, 0, Ncfg, Nbs, m_bs)

\* corr_bs = np.zeros(tuple([Nbs, m_bs]) + corr.shape[1:], dtype=corr.dtype)
\* for bs in range(Nbs): corr_bs[bs] = corr[bs_list[bs]]
gather(corr, bs_list) ==
    LET obs == Tail(corr.shape)
        S   == Prod(obs)
    IN  ndarray(corr.dtype, bs_list.shape \o obs,
                [k \in 1..(Prod(bs_list.shape) * S) |->
                    corr.data[bs_list.data[((k - 1) \div S) + 1] * S + ((k - 1) % S) + 1]])

\* np.add.reduce over the floats f[1..k], k >= 1: left to right.
RECURSIVE FSumTo(_, _)
FSumTo(f, k) == IF k = 1 THEN f[1] ELSE FAdd(FSumTo(f, k - 1), f[k])

\* np.mean of the floats f[1..n]: their sum divided by the count.
FMean(f, n) == FDiv(FSumTo(f, n), FromInt(n))

\* a.mean(axis=1) of a of shape (Nbs, m) + obs
mean_axis1(a) ==
    LET m   == a.shape[2]
        obs == Tail(Tail(a.shape))
        S   == Prod(obs)
    IN  ndarray("float64", << a.shape[1] >> \o obs,
                [k \in 1..(a.shape[1] * S) |->
                    FMean([j \in 1..m |->
                              a.data[(((k - 1) \div S) * m + (j - 1)) * S + ((k - 1) % S) + 1]],
                          m)])

\* a.mean(axis=0) of a of shape (Nbs,) + obs
mean_axis0(a) ==
    LET S == Prod(Tail(a.shape))
    IN  ndarray("float64", Tail(a.shape),
                [t \in 1..S |-> FMean([b \in 1..a.shape[1] |-> a.data[(b - 1) * S + t]],
                                      a.shape[1])])

\* a.mean(axis=(0,1)) of a of shape (Nbs, m) + obs: both axes, in memory order.
mean_axis01(a) ==
    LET n == a.shape[1] * a.shape[2]
        S == Prod(Tail(Tail(a.shape)))
    IN  ndarray("float64", Tail(Tail(a.shape)),
                [t \in 1..S |-> FMean([r \in 1..n |-> a.data[(r - 1) * S + t]], n)])

\* np.sqrt( m_bs / Ncfg)
rescale_factor(m_bs, Ncfg) == FSqrt(FDiv(FromInt(m_bs), FromInt(Ncfg)))

rescale_value(bs_mean, x, f) == FMul(x, f)

rescale_deviation_only(bs_mean, x, f) == FMul(FSub(x, bs_mean), f)

\* one element of: d_corr_bs = corr_bs - bs_mean
\*                 corr_bs = bs_mean + d_corr_bs * np.sqrt( m_bs / Ncfg)
rescale(bs_mean, x, f) == FAdd(bs_mean, FMul(FSub(x, bs_mean), f))

\* bs_mean + (a - bs_mean) * f, bs_mean broadcast over the leading axes of a
rescaled(a, bs_mean, f) ==
    LET S == Prod(bs_mean.shape)
    IN  ndarray("float64", a.shape,
                [k \in 1..Prod(a.shape) |-> rescale(bs_mean.data[((k - 1) % S) + 1], a.data[k], f)])

bs_corrs_reduce_swapped(corr_bs, f, return_mbs) ==
    IF ~return_mbs
    THEN rescaled(corr_bs, mean_axis01(corr_bs), f)
    ELSE LET avg == mean_axis1(corr_bs)
         IN  rescaled(avg, mean_axis0(avg), f)

\* if return_mbs: ... else: ...
bs_corrs_reduce(corr_bs, f, return_mbs) ==
    IF return_mbs
    THEN rescaled(corr_bs, mean_axis01(corr_bs), f)
    ELSE LET avg == mean_axis1(corr_bs)
         IN  rescaled(avg, mean_axis0(avg), f)

bs_corrs(corr, Nbs, Mbs, seed, return_bs_list, return_mbs, verbose) ==
    LET Ncfg    == corr.shape[1]
        m_bs    == bs_corrs_m_bs(Mbs, Ncfg)
        g       == bs_corrs_rng(seed, verbose)
        bs_list == bs_corrs_bs_list(g.ret, Ncfg, Nbs, m_bs)
        corr_bs == bs_corrs_reduce(gather(corr, bs_list),
                                   rescale_factor(m_bs, Ncfg), return_mbs)
    IN  [ret   |-> IF return_bs_list THEN PyTuple(<< corr_bs, bs_list >>) ELSE corr_bs,
         out   |-> g.out,
         trace |-> g.trace,
         exit  |-> None]

(***************************************************************************)
(* The calls the process makes.                                            *)
(***************************************************************************)
MaxNbs == 2
MaxNs == 3
MaxNcfg == 2
MaxMbs == 3

OptInts(max) == {None} \cup {Some(k) : k \in 0..max}
OptSeeds(strings) == {None} \cup {Some(s) : s \in strings}

\* 2^-10 and 3: far enough apart for a sum to round the small one away.
CorrValues == {FRound(1, -10), FromInt(3)}
\* Correlators of shape [Ncfg] and of shape [Ncfg, 2]; a configuration of the
\* latter is one of two rows.
CorrRows == {<< FRound(1, -10), FromInt(3) >>, << FromInt(3), FromInt(3) >>}
Corrs ==
    UNION {{ndarray("float64", << n >>, d) : d \in [1..n -> CorrValues]}
           \cup {ndarray("float64", << n, 2 >>,
                          [i \in 1..(2 * n) |-> r[(i + 1) \div 2][((i - 1) % 2) + 1]]) :
                     r \in [1..n -> CorrRows]} :
              n \in 1..MaxNcfg}

PriorMeans == {FZero, FromInt(2)}
PriorSdevs == {FromInt(1), FRound(1, -1)}
OSEntropy == {7, 424242}

GetRngCalls == [op : {"get_rng"}, seed : SeedStrings, verbose : BOOLEAN]

MakeBsLstCalls ==
    [op : {"make_bs_lst"}, n_bs : 1..MaxNbs, n_s : 1..MaxNs, m_bs : OptInts(MaxMbs),
     seed : OptSeeds(SeedStrings), verbose : BOOLEAN]

BsPriorCalls ==
    [op : {"bs_prior"}, n_bs : 1..MaxNbs, mean : PriorMeans, sdev : PriorSdevs,
     seed : OptSeeds(SeedStrings), normal : BOOLEAN]

BsCorrsCalls ==
    [op : {"bs_corrs"}, corr : Corrs, Nbs : 1..MaxNbs, Mbs : OptInts(MaxMbs),
     seed : OptSeeds({"", "test"}), return_bs_list : BOOLEAN, return_mbs : BOOLEAN,
     verbose : BOOLEAN]

Calls == GetRngCalls \cup MakeBsLstCalls \cup BsPriorCalls \cup BsCorrsCalls

(***************************************************************************)
(* One call: its outcome becomes the state.                                *)
(***************************************************************************)
Run(o) ==
    /\ pc = "ready"
    /\ result' = o.ret
    /\ stdout' = o.out
    /\ trace' = o.trace
    /\ IF o.exit = None
       THEN /\ pc' = "returned"
            /\ UNCHANGED << exit_status, stderr >>
       ELSE /\ pc' = "exited"
            /\ exit_status' = Some(o.exit[1].status)
            /\ stderr' = << o.exit[1].stderr >>
    /\ UNCHANGED << call, os_entropy, memo >>

GetRngCall ==
    /\ call.op = "get_rng"
    /\ Run(get_rng(call.seed, call.verbose))

MakeBsLstCall ==
    /\ call.op = "make_bs_lst"
    /\ Run(make_bs_lst(call.n_bs, call.n_s, call.m_bs, call.seed, call.verbose))

BsPriorCall ==
    /\ call.op = "bs_prior"
    /\ Run(bs_prior(call.n_bs, call.mean, call.sdev, call.seed, call.normal))

BsCorrsCall ==
    /\ call.op = "bs_corrs"
    /\ Run(bs_corrs(call.corr, call.Nbs, call.Mbs, call.seed, call.return_bs_list,
                    call.return_mbs, call.verbose))

Start(calls) ==
    /\ pc = "ready"
    /\ call \in calls
    /\ os_entropy \in OSEntropy
    /\ result = PyNone
    /\ stdout = << >>
    /\ stderr = << >>
    /\ exit_status = None
    /\ trace = << >>
    /\ memo = None

\* A process that makes one call, any call.
Init == Start(Calls)

Next == GetRngCall \/ MakeBsLstCall \/ BsPriorCall \/ BsCorrsCall

Spec == Init /\ [][Next]_vars

(***************************************************************************)
(* A process that makes call after call and remembers one of them.         *)
(***************************************************************************)
SeqCorrs ==
    {ndarray("float64", << 2 >>, << FRound(1, -10), FromInt(3) >>),
     ndarray("float64", << 2, 2 >>, << FromInt(3), FRound(1, -10), FromInt(3), FromInt(3) >>)}

SeqCalls ==
    [op : {"get_rng"}, seed : SeedStrings, verbose : {FALSE}]
    \cup [op : {"make_bs_lst"}, n_bs : {2}, n_s : {3}, m_bs : {None, Some(2)},
          seed : OptSeeds(SeedStrings), verbose : {FALSE}]
    \cup [op : {"bs_prior"}, n_bs : {2}, mean : {FZero}, sdev : {FromInt(1)},
          seed : OptSeeds(SeedStrings), normal : BOOLEAN]
    \cup [op : {"bs_corrs"}, corr : SeqCorrs, Nbs : {2}, Mbs : {None, Some(1)},
          seed : OptSeeds({"", "test", "94"}), return_bs_list : BOOLEAN,
          return_mbs : BOOLEAN, verbose : {FALSE}]

\* The process keeps the call that has just returned, with what it returned.
Record ==
    /\ pc = "returned"
    /\ memo = None
    /\ memo' = Some([call |-> call, os_entropy |-> os_entropy, result |-> result])
    /\ UNCHANGED << pc, call, os_entropy, result, stdout, stderr, exit_status, trace >>

\* The process goes on to its next call; the OS has new entropy by then.
NextCall ==
    /\ pc = "returned"
    /\ pc' = "ready"
    /\ call' \in SeqCalls
    /\ os_entropy' \in OSEntropy
    /\ result' = PyNone
    /\ stdout' = << >>
    /\ trace' = << >>
    /\ UNCHANGED << stderr, exit_status, memo >>

InitSeq == Start(SeqCalls)

NextSeq == Next \/ Record \/ NextCall

SpecSeq == InitSeq /\ [][NextSeq]_vars

(***************************************************************************)
(* The claims.                                                             *)
(***************************************************************************)
Returned(op) == pc = "returned" /\ call.op = op

SeedTakingOps == {"make_bs_lst", "bs_prior", "bs_corrs"}

\* An ndarray whose elements are as many as its shape says.
WellFormed(a) == a.type = "ndarray" /\ DOMAIN a.data = 1..Prod(a.shape)

\* C1: for positive n_bs, n_s and m_bs and any seed, make_bs_lst returns a 2-D
\* integer array of shape [n_bs, m_bs] ([n_bs, n_s] when m_bs is omitted) whose
\* entries all lie in 0..n_s-1.
C1_ShapeAndRange ==
    (Returned("make_bs_lst") /\ (call.m_bs = None \/ call.m_bs[1] >= 1)) =>
        /\ result.type = "ndarray"
        /\ result.dtype = "int64"
        /\ result.shape = << call.n_bs, IF call.m_bs = None THEN call.n_s ELSE call.m_bs[1] >>
        /\ WellFormed(result)
        /\ \A k \in DOMAIN result.data : result.data[k] \in 0..(call.n_s - 1)

\* make_bs_lst(2, 3, m_bs=2) has returned a [2, 2] array that holds the largest index, 2.
C1_Witness ==
    /\ Returned("make_bs_lst")
    /\ call.n_bs = 2 /\ call.n_s = 3 /\ call.m_bs = Some(2)
    /\ result.shape = << 2, 2 >>
    /\ \E k \in DOMAIN result.data : result.data[k] = 2

\* The call that has returned is the remembered call made again, with the same arguments.
Repeated == pc = "returned" /\ memo # None /\ memo[1].call = call

\* C2: a call of make_bs_lst, bs_prior or bs_corrs with a non-empty seed returns the
\* same result wherever in the sequence of calls it is made.
C2_Reproducible ==
    (Repeated /\ call.op \in SeedTakingOps /\ TruthyStr(call.seed)) =>
        result = memo[1].result

\* bs_corrs with seed "test" has returned twice, the OS entropy having changed between.
C2_Witness ==
    /\ Repeated
    /\ call.op = "bs_corrs" /\ call.seed = Some("test") /\ call.return_bs_list
    /\ memo[1].os_entropy # os_entropy
    /\ result = memo[1].result

\* The output array of a bs_corrs call, and the quantities the claims name.
Arr == IF call.return_bs_list THEN result.items[1] ELSE result
Ncfg == call.corr.shape[1]
ObsShape == Tail(call.corr.shape)
ObsSize == Prod(ObsShape)
\* m_bs: Mbs if given (0 counts as not given, see C6), else Ncfg
EffectiveMbs == IF call.Mbs # None /\ call.Mbs[1] # 0 THEN call.Mbs[1] ELSE Ncfg

\* The index list of the call: the one it returns when asked to.
IndexList ==
    IF call.return_bs_list
    THEN result.items[2]
    ELSE bs_corrs_bs_list(bs_corrs_rng(call.seed, call.verbose).ret, Ncfg, call.Nbs,
                          EffectiveMbs)

\* The gathered, unrescaled array [Nbs, m_bs] + observable shape: its entry (b, j, t)
\* is corr[bs_list[b][j]] at observable position t.
Gathered ==
    LET idx == IndexList
    IN  ndarray("float64", << call.Nbs, EffectiveMbs >> \o ObsShape,
                [k \in 1..(call.Nbs * EffectiveMbs * ObsSize) |->
                    call.corr.data[idx.data[((k - 1) \div ObsSize) + 1] * ObsSize
                                   + ((k - 1) % ObsSize) + 1]])

\* The array the rescaling starts from, and its mean over the bootstrap axes.
Unscaled == IF call.return_mbs THEN Gathered ELSE mean_axis1(Gathered)
MeanOver(a) == IF call.return_mbs THEN mean_axis01(a) ELSE mean_axis0(a)
\* How many entries that mean averages.
Averaged == IF call.return_mbs THEN call.Nbs * EffectiveMbs ELSE call.Nbs

Factor == rescale_factor(EffectiveMbs, Ncfg)
FactorOrOne == IF FLeq(Factor, FromInt(1)) THEN FromInt(1) ELSE Factor
MaxAbsCorr ==
    CHOOSE x \in {FAbs(call.corr.data[k]) : k \in DOMAIN call.corr.data} :
        \A k \in DOMAIN call.corr.data : FLeq(FAbs(call.corr.data[k]), x)

\* 2^(3 - Precision) * n * max(1, factor) * max|corr|
Tolerance(n) ==
    [m |-> 8 * n * FactorOrOne.m * MaxAbsCorr.m, e |-> FactorOrOne.e + MaxAbsCorr.e - Precision]

\* C3 as stated: the mean of the output over the bootstrap axes equals the mean of the
\* unrescaled array over the same axes.
C3_MeanEqual ==
    Returned("bs_corrs") => MeanOver(Arr) = MeanOver(Unscaled)

\* C3 amended: the two means agree to rounding, within
\* 2^(3-p) * N * max(1, f) * max|corr| (p the significand's bits, N the entries
\* averaged, f the factor); f is sqrt(m_bs/Ncfg) to rounding; and every output entry
\* is, to rounding, the mean plus f times the entry's deviation from the mean.
C3_MeanPreserved ==
    Returned("bs_corrs") =>
        LET un     == Unscaled
            before == MeanOver(un)
            after  == MeanOver(Arr)
            f      == Factor
            tolN   == Tolerance(Averaged)
            tol1   == Tolerance(1)
        IN  /\ \A t \in 1..ObsSize : Close(after.data[t], before.data[t], tolN)
            /\ Abs(Ncfg * f.m * f.m * 2^(2 * f.e + 2 * Precision) - EffectiveMbs * 2^(2 * Precision))
                   * 2^Precision <= 4 * EffectiveMbs * 2^(2 * Precision)
            /\ \A k \in DOMAIN Arr.data :
                   LET mu == before.data[((k - 1) % ObsSize) + 1]
                   IN  Close(Arr.data[k], DAdd(mu, DMul(f, DSub(un.data[k], mu))), tol1)

\* bs_corrs has rescaled by a factor other than 1 and rounding has moved the mean.
C3_Witness ==
    /\ Returned("bs_corrs")
    /\ EffectiveMbs # Ncfg
    /\ call.Nbs = 2
    /\ LET un == Unscaled
       IN  /\ MeanOver(Arr) # MeanOver(un)
           /\ \E k \in DOMAIN Arr.data : Arr.data[k] # un.data[k]

\* C4 as stated: when m_bs = Ncfg the factor is 1 and the output equals the unscaled
\* bootstrap result, entry by entry.
C4_Equal ==
    (Returned("bs_corrs") /\ EffectiveMbs = Ncfg) =>
        /\ Factor = FromInt(1)
        /\ Arr = Unscaled

\* C4 amended: when m_bs = Ncfg the factor is exactly 1 and every output entry is the
\* unscaled entry to rounding, within 2^(3-p) * max|corr|.
C4_EqualToRounding ==
    (Returned("bs_corrs") /\ EffectiveMbs = Ncfg) =>
        LET un   == Unscaled
            tol1 == Tolerance(1)
        IN  /\ Factor = FromInt(1)
            /\ Arr.shape = un.shape
            /\ \A k \in DOMAIN Arr.data : Close(Arr.data[k], un.data[k], tol1)

\* bs_corrs with m_bs = Ncfg = 2 has returned an entry that rounding has changed.
C4_Witness ==
    /\ Returned("bs_corrs")
    /\ EffectiveMbs = Ncfg /\ Ncfg = 2
    /\ LET un == Unscaled
       IN  \E k \in DOMAIN Arr.data :
               /\ Arr.data[k] # un.data[k]
               /\ Close(Arr.data[k], un.data[k], Tolerance(1))

\* C5: bs_prior with normal=false ends the process with a message on stderr and a
\* non-zero exit status and returns nothing; with normal=true it returns a 1-D array
\* of length n_bs and the process goes on.
C5_PriorExit ==
    (call.op = "bs_prior" /\ pc # "ready") =>
        IF call.normal
        THEN /\ pc = "returned"
             /\ exit_status = None
             /\ stderr = << >>
             /\ result.type = "ndarray"
             /\ result.shape = << call.n_bs >>
             /\ WellFormed(result)
        ELSE /\ pc = "exited"
             /\ exit_status # None
             /\ exit_status[1] # 0
             /\ stderr = << "Non-Gaussian distributions not currently supported" >>
             /\ result = PyNone

\* bs_prior(normal=false) has ended the process.
C5_Witness ==
    /\ call.op = "bs_prior"
    /\ ~call.normal
    /\ pc = "exited"
    /\ exit_status = Some(1)

\* C6: m_bs=0 (Mbs=0) is treated as m_bs=None (Mbs=None): the same result, with n_s
\* (Ncfg) draws per replica, and the call returns.
C6_ZeroIsAbsent ==
    /\ (call.op \in {"make_bs_lst", "bs_corrs"} /\ pc # "ready") => pc = "returned"
    /\ (Returned("make_bs_lst") /\ call.m_bs = Some(0)) =>
           /\ result = make_bs_lst(call.n_bs, call.n_s, None, call.seed, call.verbose).ret
           /\ result.shape = << call.n_bs, call.n_s >>
    /\ (Returned("bs_corrs") /\ call.Mbs = Some(0)) =>
           /\ result = bs_corrs(call.corr, call.Nbs, None, call.seed, call.return_bs_list,
                                call.return_mbs, call.verbose).ret
           /\ call.return_bs_list => result.items[2].shape = << call.Nbs, Ncfg >>
           /\ call.return_mbs => Arr.shape = << call.Nbs, Ncfg >> \o ObsShape

\* make_bs_lst(2, 3, m_bs=0) has returned a [2, 3] array.
C6_Witness ==
    /\ Returned("make_bs_lst")
    /\ call.m_bs = Some(0) /\ call.n_bs = 2 /\ call.n_s = 3
    /\ result.shape = << 2, 3 >>

\* C7: bs_corrs returns an array of shape [Nbs] + observable shape (return_mbs=false)
\* or [Nbs, m_bs] + observable shape (return_mbs=true); with return_bs_list=true it
\* returns the pair (array, index list), the list of shape [Nbs, m_bs] with entries in
\* 0..Ncfg-1, and otherwise the array alone.
C7_Shapes ==
    Returned("bs_corrs") =>
        /\ result.type = IF call.return_bs_list THEN "tuple" ELSE "ndarray"
        /\ call.return_bs_list =>
               /\ Len(result.items) = 2
               /\ result.items[2].shape = << call.Nbs, EffectiveMbs >>
               /\ WellFormed(result.items[2])
               /\ \A k \in DOMAIN result.items[2].data : result.items[2].data[k] \in 0..(Ncfg - 1)
        /\ Arr.shape = (IF call.return_mbs THEN << call.Nbs, EffectiveMbs >> ELSE << call.Nbs >>)
                           \o ObsShape
        /\ WellFormed(Arr)

\* bs_corrs(corr of shape [2, 2], Nbs=2, Mbs=3, return_mbs, return_bs_list) has returned.
C7_Witness ==
    /\ Returned("bs_corrs")
    /\ call.return_mbs /\ call.return_bs_list
    /\ call.corr.shape = << 2, 2 >> /\ call.Nbs = 2 /\ call.Mbs = Some(3)
    /\ result.items[1].shape = << 2, 3, 2 >>
    /\ result.items[2].shape = << 2, 3 >>

\* int(hashlib.md5(seed).hexdigest(), 16) % 10**6, as Python computes it.
PythonSeedInt(seed) ==
    CASE seed = "" -> 178366
      [] seed = "test" -> 528374
      [] seed = "a" -> 726497
      [] seed = "94" -> 994607
      [] seed = "1199" -> 994607

\* The first draws of a generator.
Draws(rng) == [k \in 1..4 |-> Output(rng, k)]

\* get_rng has returned, and the remembered call was a get_rng too.
TwoGetRng ==
    pc = "returned" /\ memo # None /\ call.op = "get_rng" /\ memo[1].call.op = "get_rng"

\* C8 as stated: the generator is built from int(md5_hex(seed), 16) mod 10^6; equal
\* seed strings give equal draw sequences and distinct seed strings different ones.
C8_DistinctSeedsDiffer ==
    TwoGetRng =>
        /\ result = PCG64(SeedSequence(PythonSeedInt(call.seed)))
        /\ memo[1].call.seed = call.seed => Draws(result) = Draws(memo[1].result)
        /\ memo[1].call.seed # call.seed => Draws(result) # Draws(memo[1].result)

\* C8 amended: the generator is built from int(md5_hex(seed), 16) mod 10^6 and from
\* nothing else: two seed strings with the same residue, equal or not, give the same
\* generator and the same draw sequence.
C8_ResidueDecides ==
    TwoGetRng =>
        /\ result = PCG64(SeedSequence(PythonSeedInt(call.seed)))
        /\ PythonSeedInt(memo[1].call.seed) = PythonSeedInt(call.seed) =>
               /\ result = memo[1].result
               /\ Draws(result) = Draws(memo[1].result)

\* get_rng("94") and then get_rng("1199") have returned generators that draw the same.
C8_Witness ==
    /\ TwoGetRng
    /\ memo[1].call.seed = "94" /\ call.seed = "1199"
    /\ Draws(result) = Draws(memo[1].result)

\* C9: for a non-empty seed, the index list bs_corrs returns is the array
\* make_bs_lst(Nbs, Ncfg, Mbs, seed) returns, whatever return_mbs is.
C9_SameIndexList ==
    (Returned("bs_corrs") /\ call.return_bs_list /\ call.seed # None /\ call.seed[1] # "") =>
        /\ result.items[2] =
               make_bs_lst(call.Nbs, Ncfg, call.Mbs, call.seed, call.verbose).ret
        /\ result.items[2] =
               bs_corrs(call.corr, call.Nbs, call.Mbs, call.seed, TRUE, ~call.return_mbs,
                        call.verbose).ret.items[2]

\* bs_corrs(corr of 2 configurations, Nbs=2, Mbs=3, seed="test") has returned its list.
C9_Witness ==
    /\ Returned("bs_corrs")
    /\ call.return_bs_list /\ call.seed = Some("test")
    /\ Ncfg = 2 /\ call.Nbs = 2 /\ call.Mbs = Some(3)
    /\ result.items[2].shape = << 2, 3 >>
    /\ result.items[2] = make_bs_lst(2, 2, Some(3), Some("test"), call.verbose).ret

\* C10: make_bs_lst, bs_prior and bs_corrs build their generator with get_rng when
\* the seed is given and not empty, and with default_rng (never get_rng) when it is
\* None or "".
C10_SeededIffNonEmpty ==
    (call.op \in SeedTakingOps /\ pc # "ready") =>
        trace = IF call.seed # None /\ call.seed[1] # ""
                THEN << "get_rng" >>
                ELSE << "default_rng" >>

\* make_bs_lst with seed="" has returned twice, with different arrays.
C10_Witness ==
    /\ Repeated
    /\ call.op = "make_bs_lst" /\ call.seed = Some("")
    /\ trace = << "default_rng" >>
    /\ result # memo[1].result

=============================================================================
